---- MODULE Spec2Model ----
(***************************************************************************)
(* Model of resume_quality_checker.py: the text detectors, the scorer and  *)
(* the per-file batch loop of the Streamlit script.                        *)
(*                                                                         *)
(* Texts are strings; the regular expressions of the source are modelled   *)
(* character by character (leftmost match, greedy quantifiers).            *)
(***************************************************************************)
EXTENDS Integers, Sequences, FiniteSets, TLC

VARIABLES
    uploaded_files,   \* the files returned by st.file_uploader
    idx,              \* position of the for loop: index of the next file
    results,          \* the rows appended for the batch table
    tmp_files,        \* staged temporary files present on disk
    run,              \* "start", "loop", "done" or "crashed" (exception escaped)
    log,              \* per processed file: what was invoked and what was shown
    csv,              \* rows offered for download, << >> when no table is shown
    call              \* last direct call of a pure function (function specs)

vars == <<uploaded_files, idx, results, tmp_files, run, log, csv, call>>

-----------------------------------------------------------------------------
(* Bounds of the model                                                     *)

MaxTokens == 4

MaxSpellErrors == 6

MaxPages == 3

MaxBuzzwords == 14

MaxFiles == 2

-----------------------------------------------------------------------------
(* Characters and the character classes the regular expressions use        *)

Ch(s, i) == SubSeq(s, i, i)

Digits == {"0", "1", "2", "3", "4", "5", "6", "7", "8", "9"}

LowerLetters == {"a", "b", "c", "d", "e", "f", "g", "h", "i", "j", "k", "l", "m",
                 "n", "o", "p", "q", "r", "s", "t", "u", "v", "w", "x", "y", "z"}

UpperLetters == {"A", "B", "C", "D", "E", "F", "G", "H", "I", "J", "K", "L", "M",
                 "N", "O", "P", "Q", "R", "S", "T", "U", "V", "W", "X", "Y", "Z"}

Whitespace == {" ", "\t", "\n"}

DigitValue(c) ==
    CASE c = "0" -> 0 [] c = "1" -> 1 [] c = "2" -> 2 [] c = "3" -> 3
      [] c = "4" -> 4 [] c = "5" -> 5 [] c = "6" -> 6 [] c = "7" -> 7
      [] c = "8" -> 8 [] c = "9" -> 9

\* int(s) for a string of decimal digits
RECURSIVE ParseInt(_)
ParseInt(s) ==
    IF Len(s) = 0 THEN 0
    ELSE 10 * ParseInt(SubSeq(s, 1, Len(s) - 1)) + DigitValue(Ch(s, Len(s)))

IsDigitAt(s, i) == i >= 1 /\ i <= Len(s) /\ Ch(s, i) \in Digits

IsSpaceAt(s, i) == i >= 1 /\ i <= Len(s) /\ Ch(s, i) \in Whitespace

\* s[i:] starts with the literal lit (i is 1-based)
StartsAt(s, lit, i) ==
    i >= 1 /\ i + Len(lit) - 1 <= Len(s) /\ SubSeq(s, i, i + Len(lit) - 1) = lit

\* last index of the maximal run of digits (of whitespace) that starts at i;
\* i - 1 when the character at i is not one
RECURSIVE DigitRunEnd(_, _)
DigitRunEnd(s, i) == IF IsDigitAt(s, i) THEN DigitRunEnd(s, i + 1) ELSE i - 1

RECURSIVE SpaceRunEnd(_, _)
SpaceRunEnd(s, i) == IF IsSpaceAt(s, i) THEN SpaceRunEnd(s, i + 1) ELSE i - 1

SeqMax(q) == CHOOSE m \in {q[k] : k \in 1..Len(q)} : \A k \in 1..Len(q) : q[k] <= m

SeqMin(q) == CHOOSE m \in {q[k] : k \in 1..Len(q)} : \A k \in 1..Len(q) : m <= q[k]

-----------------------------------------------------------------------------
(* count_years_experience                                                  *)

\* a match of (?:19|20)\d{2} begins at i
YearMatchAt(s, i) ==
    /\ (StartsAt(s, "19", i) \/ StartsAt(s, "20", i))
    /\ IsDigitAt(s, i + 2)
    /\ IsDigitAt(s, i + 3)

\* re.findall(r'((?:19|20)\d{2})', s) scanning from position p: leftmost
\* match first, the scan resumes after the match (non-overlapping)
RECURSIVE FindYears(_, _)
FindYears(s, p) ==
    IF p > Len(s) THEN << >>
    ELSE IF YearMatchAt(s, p)
         THEN <<ParseInt(SubSeq(s, p, p + 3))>> \o FindYears(s, p + 4)
         ELSE FindYears(s, p + 1)

\* end of the match of (\d+)\s+years? that begins at i, 0 when there is none.
\* \d+ and \s+ are greedy and can only end at the end of their run, since
\* the element that follows each of them excludes the run's characters.
YearsPhraseEnd(s, i) ==
    LET d == DigitRunEnd(s, i)
        w == SpaceRunEnd(s, d + 1)
    IN  IF d >= i /\ w >= d + 1 /\ StartsAt(s, "year", w + 1)
        THEN IF StartsAt(s, "s", w + 5) THEN w + 5 ELSE w + 4
        ELSE 0

\* re.findall(r'(\d+)\s+years?', s) scanning from position p; the group is
\* the digit run
RECURSIVE FindYearsPhrases(_, _)
FindYearsPhrases(s, p) ==
    IF p > Len(s) THEN << >>
    ELSE IF YearsPhraseEnd(s, p) > 0
         THEN <<ParseInt(SubSeq(s, p, DigitRunEnd(s, p)))>>
              \o FindYearsPhrases(s, YearsPhraseEnd(s, p) + 1)
         ELSE FindYearsPhrases(s, p + 1)

\* the year-range branch taken as soon as one 4-digit year is found
count_years_experience_one_year(text) ==
    LET years == FindYears(text, 1)
        match == FindYearsPhrases(text, 1)
    IN  IF Len(years) >= 1
        THEN SeqMax(years) - SeqMin(years)
        ELSE IF Len(match) > 0 THEN SeqMax(match) ELSE 0

count_years_experience(text) ==
    LET years == FindYears(text, 1)
        match == FindYearsPhrases(text, 1)
    IN  IF Len(years) >= 2
        THEN SeqMax(years) - SeqMin(years)
        ELSE IF Len(match) > 0 THEN SeqMax(match) ELSE 0

-----------------------------------------------------------------------------
(* Helpers of the regular expressions of check_sections and buzzword_check *)

ToLower(c) ==
    CASE c = "A" -> "a" [] c = "B" -> "b" [] c = "C" -> "c" [] c = "D" -> "d"
      [] c = "E" -> "e" [] c = "F" -> "f" [] c = "G" -> "g" [] c = "H" -> "h"
      [] c = "I" -> "i" [] c = "J" -> "j" [] c = "K" -> "k" [] c = "L" -> "l"
      [] c = "M" -> "m" [] c = "N" -> "n" [] c = "O" -> "o" [] c = "P" -> "p"
      [] c = "Q" -> "q" [] c = "R" -> "r" [] c = "S" -> "s" [] c = "T" -> "t"
      [] c = "U" -> "u" [] c = "V" -> "v" [] c = "W" -> "w" [] c = "X" -> "x"
      [] c = "Y" -> "y" [] c = "Z" -> "z" [] OTHER -> c

\* str.lower()
RECURSIVE Lower(_)
Lower(s) ==
    IF Len(s) = 0 THEN ""
    ELSE Lower(SubSeq(s, 1, Len(s) - 1)) \o ToLower(Ch(s, Len(s)))

\* lit in s
Contains(s, lit) == \E i \in 1..Len(s) : StartsAt(s, lit, i)

InClassAt(s, i, class) == i >= 1 /\ i <= Len(s) /\ Ch(s, i) \in class

\* \w
WordChars == LowerLetters \cup UpperLetters \cup Digits \cup {"_"}

\* \b between the characters at j - 1 and j (j in 1..Len(s) + 1)
Boundary(s, j) == InClassAt(s, j - 1, WordChars) # InClassAt(s, j, WordChars)

\* last index of the maximal run of characters of class that starts at i
RECURSIVE RunEnd(_, _, _)
RunEnd(s, i, class) ==
    IF InClassAt(s, i, class) THEN RunEnd(s, i + 1, class) ELSE i - 1

\* [A-Za-z0-9._%+-]
EmailLocalChars == LowerLetters \cup UpperLetters \cup Digits \cup {".", "_", "%", "+", "-"}

\* [A-Za-z0-9.-]
EmailDomainChars == LowerLetters \cup UpperLetters \cup Digits \cup {".", "-"}

\* [A-Z|a-z]
EmailTldChars == LowerLetters \cup UpperLetters \cup {"|"}

\* [^\S\r\n]
HorizontalSpace == {" ", "\t"}

\* [A-z0-9_\-\.]: A-z is the ASCII range 65..122, which holds the six
\* characters between Z and a (the backquote, which a TLA+ string cannot
\* hold, is left out; no text of the model contains it)
LinkedInChars == LowerLetters \cup UpperLetters \cup Digits
                 \cup {"[", "\\", "]", "^", "_", "-", "."}

SetMax(S) == CHOOSE m \in S : \A k \in S : k <= m

\* end of the match of
\*   \b[A-Za-z0-9._%+-]+@[A-Za-z0-9.-]+\.[A-Z|a-z]{2,}\b
\* that begins at i, 0 when there is none.  The local part runs to the "@"
\* ("@" is not in its class); the domain is tried longest first, then the
\* top-level part longest first.
EmailMatchEnd(s, i) ==
    LET at == RunEnd(s, i, EmailLocalChars) + 1
        e  == RunEnd(s, at + 1, EmailDomainChars)
        TldEnds(d) == {t \in (d + 3)..RunEnd(s, d + 2, EmailTldChars) :
                          Boundary(s, t + 1)}
        ds == {d \in (at + 1)..(e - 1) : Ch(s, d + 1) = "." /\ TldEnds(d) # {}}
    IN  IF Boundary(s, i) /\ at > i /\ StartsAt(s, "@", at) /\ ds # {}
        THEN SetMax(TldEnds(SetMax(ds)))
        ELSE 0

\* re.findall of the e-mail pattern, scanning from position p
RECURSIVE FindEmails(_, _)
FindEmails(s, p) ==
    IF p > Len(s) THEN << >>
    ELSE IF EmailMatchEnd(s, p) > 0
         THEN <<SubSeq(s, p, EmailMatchEnd(s, p))>>
              \o FindEmails(s, EmailMatchEnd(s, p) + 1)
         ELSE FindEmails(s, p + 1)

\* re.search(r"\b[A-Za-z0-9._%+-]+@[A-Za-z0-9.-]+\.(com|org|net|co)\b", mail)
HasCorpSuffix(mail) ==
    \E i \in 1..Len(mail) :
        LET at == RunEnd(mail, i, EmailLocalChars) + 1
            e  == RunEnd(mail, at + 1, EmailDomainChars)
        IN  /\ Boundary(mail, i)
            /\ at > i
            /\ StartsAt(mail, "@", at)
            /\ \E d \in (at + 1)..(e - 1) :
                 /\ Ch(mail, d + 1) = "."
                 /\ \E tld \in {"com", "org", "net", "co"} :
                      /\ StartsAt(mail, tld, d + 2)
                      /\ Boundary(mail, d + 2 + Len(tld))

\* re.search(r"@(gmail|yahoo|hotmail|outlook)\.", mail)
HasConsumerDomain(mail) ==
    \E i \in 1..Len(mail) :
        \E dom \in {"gmail", "yahoo", "hotmail", "outlook"} :
            StartsAt(mail, "@" \o dom \o ".", i)

\* the phone pattern has a match: both optional groups may match nothing,
\* so a match exists exactly when \d{3,4}[^\S\r\n]*\d{3,4} has one
HasPhone(s) ==
    \E i \in 1..Len(s) :
        \E n \in {3, 4} :
            /\ \A k \in i..(i + n - 1) : IsDigitAt(s, k)
            /\ \E j \in (i + n)..(RunEnd(s, i + n, HorizontalSpace) + 1) :
                 \A k \in j..(j + 2) : IsDigitAt(s, k)

\* re.search of (https?://)?(www\.)?linkedin\.com/(in|pub)/[A-z0-9_\-\.]+
HasLinkedIn(s) ==
    \E i \in 1..Len(s) :
        \E lit \in {"linkedin.com/in/", "linkedin.com/pub/"} :
            /\ StartsAt(s, lit, i)
            /\ InClassAt(s, i + Len(lit), LinkedInChars)

-----------------------------------------------------------------------------
(* check_sections                                                          *)

EducationKeywords ==
    <<"education", "degree", "bachelor", "master", "phd", "b.sc", "m.sc",
      "mba", "btech", "b.e.", "b.e", "mtech">>

ExperienceKeywords ==
    <<"experience", "work history", "employment", "positions",
      "career profile", "professional experience">>

SectionKeys ==
    {"Email", "Phone", "Professional Email", "LinkedIn", "Education",
     "Experience", "Skills"}

\* the professional e-mail flag without the consumer-domain exclusion
check_sections_no_denylist(text) ==
    LET emails == FindEmails(text, 1)
        corp_email == \E m \in 1..Len(emails) : HasCorpSuffix(emails[m])
        lower == Lower(text)
    IN  [k \in SectionKeys |->
            CASE k = "Email" -> Len(emails) > 0
              [] k = "Phone" -> HasPhone(text)
              [] k = "Professional Email" -> corp_email
              [] k = "LinkedIn" -> HasLinkedIn(text)
              [] k = "Education" ->
                    \E m \in 1..Len(EducationKeywords) :
                        Contains(lower, EducationKeywords[m])
              [] k = "Experience" ->
                    \E m \in 1..Len(ExperienceKeywords) :
                        Contains(lower, ExperienceKeywords[m])
              [] k = "Skills" -> Contains(lower, "skill")]

check_sections(text) ==
    LET emails == FindEmails(text, 1)
        corp_email ==
            \E m \in 1..Len(emails) :
                HasCorpSuffix(emails[m]) /\ ~HasConsumerDomain(emails[m])
        lower == Lower(text)
    IN  [k \in SectionKeys |->
            CASE k = "Email" -> Len(emails) > 0
              [] k = "Phone" -> HasPhone(text)
              [] k = "Professional Email" -> corp_email
              [] k = "LinkedIn" -> HasLinkedIn(text)
              [] k = "Education" ->
                    \E m \in 1..Len(EducationKeywords) :
                        Contains(lower, EducationKeywords[m])
              [] k = "Experience" ->
                    \E m \in 1..Len(ExperienceKeywords) :
                        Contains(lower, ExperienceKeywords[m])
              [] k = "Skills" -> Contains(lower, "skill")]

-----------------------------------------------------------------------------
(* buzzword_check                                                          *)

buzzwords ==
    <<"team player", "self-motivated", "leadership", "synergy", "proactive",
      "hardworking", "dynamic", "results-driven", "detail-oriented",
      "innovative", "strategic", "goal oriented", "motivated", "passionate",
      "responsible", "organized", "adaptable", "communication",
      "problem solving", "critical thinking", "flexible", "fast learner",
      "python", "java", "c++", "c#", "javascript", "sql", "excel", "tableau",
      "powerbi", "aws", "azure", "docker", "kubernetes", "react", "node",
      "git", "jira", "linux", "agile", "scrum", "html", "css", "typescript",
      "pmp", "six sigma", "aws certified", "data analyst", "business analyst",
      "product manager", "devops", "cloud", "machine learning",
      "artificial intelligence", "deep learning", "nlp", "data science",
      "web development", "project management", "client relations",
      "stakeholder engagement", "negotiation", "training", "mentoring">>

\* re.search(r'\b' + re.escape(bw) + r'\b', s)
ContainsWord(s, bw) ==
    \E i \in 1..Len(s) :
        StartsAt(s, bw, i) /\ Boundary(s, i) /\ Boundary(s, i + Len(bw))

\* len(bw.split()) == 1 for the entries of the vocabulary
IsSingleWord(bw) == ~Contains(bw, " ")

buzzword_check(text) ==
    LET text_lower == Lower(text)
    IN  SelectSeq(buzzwords,
                  LAMBDA bw : IF IsSingleWord(bw)
                              THEN ContainsWord(text_lower, bw)
                              ELSE Contains(text_lower, bw))

-----------------------------------------------------------------------------
(* calculate_score                                                         *)

Min(a, b) == IF a < b THEN a ELSE b

Max(a, b) == IF a > b THEN a ELSE b

\* the score returned without the final clamp
calculate_score_unclamped(sections, spell_errors, word_count, page_count, found) ==
    LET s1 == 10 * Cardinality({k \in DOMAIN sections : sections[k]})
        s2 == s1 - Min(spell_errors, 5) * 2
        s3 == IF sections["Professional Email"] THEN s2 + 5 ELSE s2
        s4 == IF 300 <= word_count /\ word_count <= 1000 THEN s3 + 10 ELSE s3
        s5 == IF Len(found) > 0 THEN s4 + 3 + Len(found) ELSE s4
        s6 == IF page_count > 2 THEN s5 - 5 ELSE s5
    IN  s6

\* the section points given for the flags that are false
calculate_score_absent_flags(sections, spell_errors, word_count, page_count, found) ==
    LET s1 == 10 * Cardinality({k \in DOMAIN sections : ~sections[k]})
        s2 == s1 - Min(spell_errors, 5) * 2
        s3 == IF sections["Professional Email"] THEN s2 + 5 ELSE s2
        s4 == IF 300 <= word_count /\ word_count <= 1000 THEN s3 + 10 ELSE s3
        s5 == IF Len(found) > 0 THEN s4 + 3 + Len(found) ELSE s4
        s6 == IF page_count > 2 THEN s5 - 5 ELSE s5
    IN  Max(0, Min(100, s6))

calculate_score(sections, spell_errors, word_count, page_count, found) ==
    LET s1 == 10 * Cardinality({k \in DOMAIN sections : sections[k]})
        s2 == s1 - Min(spell_errors, 5) * 2
        s3 == IF sections["Professional Email"] THEN s2 + 5 ELSE s2
        s4 == IF 300 <= word_count /\ word_count <= 1000 THEN s3 + 10 ELSE s3
        s5 == IF Len(found) > 0 THEN s4 + 3 + Len(found) ELSE s4
        s6 == IF page_count > 2 THEN s5 - 5 ELSE s5
    IN  Max(0, Min(100, s6))

-----------------------------------------------------------------------------
(* Texts of the uploaded documents.  A text is the string body followed by *)
(* pad copies of Filler; it is kept in this form so that texts of several  *)
(* hundred words stay small.  Filler holds no digit, no "@" and no keyword *)
(* of any detector, so every detector finds in body \o Filler what it      *)
(* finds in the whole text.                                                *)

Filler == " lorem"

Text(body, pad) == [body |-> body, pad |-> pad]

\* len(text)
TextLen(t) == Len(t.body) + t.pad * Len(Filler)

\* the part of the text the detectors have to scan
Scan(t) == IF t.pad > 0 THEN t.body \o Filler ELSE t.body

\* len(s.split())
SplitLen(s) ==
    Cardinality({i \in 1..Len(s) : ~IsSpaceAt(s, i) /\ (i = 1 \/ IsSpaceAt(s, i - 1))})

-----------------------------------------------------------------------------
(* word_page_count                                                         *)

\* the page estimate without the round-up of a partial page
word_page_count_floor(text) ==
    LET word_count == SplitLen(text.body) + text.pad
        page_count == Max(1, word_count \div 500)
    IN  <<word_count, page_count>>

word_page_count(text) ==
    LET word_count == SplitLen(text.body) + text.pad
        page_count == Max(1, (word_count \div 500)
                             + (IF word_count % 500 # 0 THEN 1 ELSE 0))
    IN  <<word_count, page_count>>

-----------------------------------------------------------------------------
(* spell_check: the LanguageTool backend either raises or returns matches; *)
(* the reply is the set of the matched words                               *)

spell_check(reply) == <<Cardinality(reply), reply>>

ErrorWords(n) == {"typo" \o ToString(k) : k \in 1..n}

SpellReplies == {ErrorWords(0), ErrorWords(MaxSpellErrors)}

-----------------------------------------------------------------------------
(* Uploaded files                                                          *)

Scenario1 == Text("john.doe@gmail.com", 49)

Scenario2 == Text("Education Experience Skills jd@acme.com python sql", 494)

Texts ==
    { Text("", 0),                 \* nothing extracted
      Text("abc", 16),             \* 99 characters
      Text("abcd", 16),            \* 100 characters
      Scenario1,                   \* 50 words
      Scenario2,                   \* 500 words
      Text("skills", 999),         \* 1000 words
      Text("skills", 1000) }       \* 1001 words

\* raises: the parsers that raise on the bytes of the file
File(name, text, raises) == [name |-> name, text |-> text, raises |-> raises]

Files ==
    {File("cv.txt", t, {}) : t \in Texts}
    \cup {File("cv.docx", t, {}) : t \in Texts}
    \cup {File("cv.doc", Scenario1, {}), File("cv.docx", Text("", 0), {"docx2txt"})}
    \cup {File("cv.pdf", t, r) : t \in Texts, r \in {{}, {"fitz"}}}
    \cup {File("cv.pdf", Scenario2, {"pdfminer"}),
          File("cv.pdf", Text("", 0), {"fitz", "pdfminer"})}

RECURSIVE FileLists(_)
FileLists(n) ==
    IF n = 0 THEN {<< >>}
    ELSE FileLists(n - 1)
         \cup {Append(q, f) : q \in {l \in FileLists(n - 1) : Len(l) = n - 1},
                              f \in Files}

-----------------------------------------------------------------------------
(* extract_text                                                            *)

\* os.path.splitext(name)[1].lower()
SplitExt(name) ==
    LET dots == {i \in 2..Len(name) : Ch(name, i) = "."}
    IN  IF dots = {} THEN "" ELSE Lower(SubSeq(name, SetMax(dots), Len(name)))

Returned(text, invoked) == [raised |-> FALSE, text |-> text, invoked |-> invoked]

Raised(invoked) == [raised |-> TRUE, text |-> Text("", 0), invoked |-> invoked]

extract_text_pdf(file) ==
    IF "fitz" \notin file.raises
    THEN Returned(file.text, <<"fitz">>)
    ELSE IF "pdfminer" \notin file.raises
         THEN Returned(file.text, <<"fitz", "pdfminer">>)
         ELSE Raised(<<"fitz", "pdfminer">>)

extract_text_docx(file) ==
    IF "docx2txt" \notin file.raises
    THEN Returned(file.text, <<"docx2txt">>)
    ELSE Raised(<<"docx2txt">>)

extract_text_txt(file) == Returned(file.text, <<"open">>)

\* the result of the extractor and whether the staged file is still on disk
\* when extract_text ends: os.remove is reached only on a normal return
extract_text(file) ==
    LET ext == SplitExt(file.name)
        res == IF ext = ".pdf" THEN extract_text_pdf(file)
               ELSE IF ext \in {".doc", ".docx"} THEN extract_text_docx(file)
               ELSE IF ext = ".txt" THEN extract_text_txt(file)
               ELSE Returned(Text("", 0), << >>)
    IN  [res EXCEPT !.text = IF res.raised THEN Text("", 0) ELSE res.text]
        @@ [ext |-> ext, tmp_left |-> res.raised]

-----------------------------------------------------------------------------
(* The script: one run over the uploaded files (lines 154-202)             *)

NoCall == [fn |-> "none"]

\* the detectors applied to each text of the model (evaluated once)
Detected ==
    [t \in Texts |->
        [sections        |-> check_sections(Scan(t)),
         years_exp       |-> count_years_experience(Scan(t)),
         counts          |-> word_page_count(t),
         buzzwords_found |-> buzzword_check(Scan(t))]]

Init ==
    /\ uploaded_files \in FileLists(MaxFiles)
    /\ idx = 1
    /\ results = << >>
    /\ tmp_files = {}
    /\ run = "start"
    /\ log = << >>
    /\ csv = << >>
    /\ call = NoCall

\* if uploaded_files: results = []
StartRun ==
    /\ run = "start"
    /\ run' = IF Len(uploaded_files) > 0 THEN "loop" ELSE "done"
    /\ UNCHANGED <<uploaded_files, idx, results, tmp_files, log, csv, call>>

InLoop == run = "loop" /\ idx <= Len(uploaded_files)

\* path of the temporary file staged for the file at position i
TmpPath(i) == <<"tmp", i, SplitExt(uploaded_files[i].name)>>

LogEntry(ex, outcome, spell) ==
    [file |-> idx, outcome |-> outcome, invoked |-> ex.invoked,
     extracted |-> ~ex.raised, chars |-> TextLen(ex.text), spell |-> spell]

\* an iteration in which extract_text raises: nothing catches the exception,
\* the script stops and the staged file stays on disk
ExtractionRaises ==
    /\ InLoop
    /\ LET ex == extract_text(uploaded_files[idx])
       IN  /\ ex.raised
           /\ tmp_files' = tmp_files \cup {TmpPath(idx)}
           /\ log' = Append(log, LogEntry(ex, "exception", "not called"))
    /\ run' = "crashed"
    /\ UNCHANGED <<uploaded_files, idx, results, csv, call>>

\* an iteration that takes the continue of line 161
SkipInsufficient ==
    /\ InLoop
    /\ LET ex == extract_text(uploaded_files[idx])
       IN  /\ ~ex.raised
           /\ TextLen(ex.text) < 100
           /\ log' = Append(log, LogEntry(ex, "warning", "not called"))
    /\ idx' = idx + 1
    /\ UNCHANGED <<uploaded_files, results, tmp_files, run, csv, call>>

\* an iteration in which spell_check raises (LanguageTool cannot be started
\* or its check fails): nothing catches the exception, the script stops
SpellCheckRaises ==
    /\ InLoop
    /\ LET ex == extract_text(uploaded_files[idx])
       IN  /\ ~ex.raised
           /\ ~(TextLen(ex.text) < 100)
           /\ log' = Append(log, LogEntry(ex, "exception", "raised"))
    /\ run' = "crashed"
    /\ UNCHANGED <<uploaded_files, idx, results, tmp_files, csv, call>>

\* an iteration that analyses, scores, displays and records the file
AnalyseFile ==
    /\ InLoop
    /\ LET file == uploaded_files[idx]
           ex   == extract_text(file)
           text == ex.text
       IN  /\ ~ex.raised
           /\ ~(TextLen(text) < 100)
           /\ \E reply \in SpellReplies :
                LET sections        == Detected[text].sections
                    years_exp       == Detected[text].years_exp
                    spell_errors    == spell_check(reply)[1]
                    word_count      == Detected[text].counts[1]
                    page_count      == Detected[text].counts[2]
                    buzzwords_found == Detected[text].buzzwords_found
                    score == calculate_score(sections, spell_errors, word_count,
                                             page_count, buzzwords_found)
                IN  /\ log' = Append(log,
                                LogEntry(ex, "report", "returned")
                                @@ [score |-> score, sections |-> sections,
                                    spell_errors |-> spell_errors,
                                    word_count |-> word_count,
                                    page_count |-> page_count,
                                    buzzwords_found |-> buzzwords_found,
                                    length_warning |->
                                        page_count > 2 /\ word_count > 1000])
                    /\ results' = Append(results,
                                    [File |-> file.name, Score |-> score,
                                     Pages |-> page_count, Words |-> word_count,
                                     YearsExp |-> years_exp,
                                     SpellErrors |-> spell_errors,
                                     Buzzwords |-> buzzwords_found])
    /\ idx' = idx + 1
    /\ UNCHANGED <<uploaded_files, tmp_files, run, csv, call>>

\* after the loop: the batch table and the download when len(results) > 1
FinishRun ==
    /\ run = "loop"
    /\ idx > Len(uploaded_files)
    /\ csv' = IF Len(results) > 1 THEN results ELSE << >>
    /\ run' = "done"
    /\ UNCHANGED <<uploaded_files, idx, results, tmp_files, log, call>>

Next ==
    \/ StartRun
    \/ ExtractionRaises
    \/ SkipInsufficient
    \/ SpellCheckRaises
    \/ AnalyseFile
    \/ FinishRun

Spec == Init /\ [][Next]_vars

-----------------------------------------------------------------------------
(* Inputs of count_years_experience: texts built from at most MaxTokens    *)
(* fragments                                                               *)

YearTokens == {"2010", "2020", "1998", "3", "12", " ", "years", "year", "x"}

RECURSIVE TextsOfLen(_)
TextsOfLen(n) ==
    IF n = 0 THEN {""}
    ELSE {t \o k : t \in TextsOfLen(n - 1), k \in YearTokens}

YearTexts == UNION {TextsOfLen(n) : n \in 0..MaxTokens}

-----------------------------------------------------------------------------
\* no upload: only the function under study is called
NoUpload ==
    /\ uploaded_files = << >>
    /\ idx = 1
    /\ results = << >>
    /\ tmp_files = {}
    /\ run = "done"
    /\ log = << >>
    /\ csv = << >>

InitYears == NoUpload /\ call = NoCall

CallCountYears ==
    /\ call = NoCall
    /\ \E text \in YearTexts :
         call' = [fn |-> "count_years_experience", text |-> text,
                  ret |-> count_years_experience(text)]
    /\ UNCHANGED <<uploaded_files, idx, results, tmp_files, run, log, csv>>

NextYears == CallCountYears

SpecYears == InitYears /\ [][NextYears]_vars

-----------------------------------------------------------------------------
(* calculate_score called directly                                         *)

WordCounts == {0, 299, 300, 1000, 1001}

InitScore == NoUpload /\ call = NoCall

CallCalculateScore ==
    /\ call = NoCall
    /\ \E sections \in [SectionKeys -> BOOLEAN],
          spell_errors \in 0..MaxSpellErrors,
          word_count \in WordCounts,
          page_count \in 1..MaxPages,
          n \in 0..MaxBuzzwords :
         call' = [fn |-> "calculate_score", sections |-> sections,
                  spell_errors |-> spell_errors, word_count |-> word_count,
                  page_count |-> page_count,
                  buzzwords |-> SubSeq(buzzwords, 1, n),
                  ret |-> calculate_score(sections, spell_errors, word_count,
                                          page_count, SubSeq(buzzwords, 1, n))]
    /\ UNCHANGED <<uploaded_files, idx, results, tmp_files, run, log, csv>>

NextScore == CallCalculateScore

SpecScore == InitScore /\ [][NextScore]_vars

-----------------------------------------------------------------------------
(* Properties                                                              *)

\* C1: for every map of the seven section flags, spelling-error count, word
\* count, page count >= 1 and buzzword list, calculate_score returns an
\* integer between 0 and 100
C1_ScoreInRange ==
    call.fn = "calculate_score" => call.ret \in 0..100

\* the rules add up to more than 100 and the result is 100
C1_Witness ==
    /\ call.fn = "calculate_score"
    /\ \A k \in SectionKeys : call.sections[k]
    /\ call.spell_errors = 0
    /\ call.word_count = 300
    /\ call.page_count = 1
    /\ Len(call.buzzwords) >= 13
    /\ call.ret = 100

\* C9: turning one false section flag to true, everything else equal, never
\* lowers the score
C9_MonotoneInFlags ==
    call.fn = "calculate_score" =>
        \A k \in SectionKeys :
            ~call.sections[k] =>
                calculate_score([call.sections EXCEPT ![k] = TRUE],
                                call.spell_errors, call.word_count,
                                call.page_count, call.buzzwords) >= call.ret

\* a call with the Professional Email flag false whose score rises by 15
\* when the flag is set
C9_Witness ==
    /\ call.fn = "calculate_score"
    /\ ~call.sections["Professional Email"]
    /\ call.ret = 20
    /\ calculate_score([call.sections EXCEPT !["Professional Email"] = TRUE],
                       call.spell_errors, call.word_count, call.page_count,
                       call.buzzwords) = 35

Entries == {log[k] : k \in 1..Len(log)}

Reports == {e \in Entries : e.outcome = "report"}

RunEnded == run \in {"done", "crashed"}

\* C2: a failure while processing one file never aborts the batch: once the
\* run has ended, every file after a file whose processing raised has been
\* processed and has an outcome of its own
C2_BatchNeverAborts ==
    RunEnded =>
        \A e \in Entries :
            e.outcome = "exception" =>
                \A j \in (e.file + 1)..Len(uploaded_files) :
                    \E d \in Entries : d.file = j

\* C3: after extract_text has ended, by return or by exception, no staged
\* temporary file remains on disk
C3_NoStagedFileLeft == tmp_files = {}

\* C4: when the spelling backend raises, the analysis of the file still
\* completes with an error count of 0, a score and a report
C4_SpellFailureDegrades ==
    \A e \in Entries :
        e.spell = "raised" =>
            /\ e.outcome = "report"
            /\ e.spell_errors = 0
            /\ e.score \in 0..100

\* C5: a file whose extracted text has fewer than 100 characters is flagged
\* and skipped (no analysis, no row, the loop goes on); a file whose text has
\* 100 characters or more is always analysed, scored and given a row
C5_ThresholdDecides ==
    /\ Len(results) = Cardinality(Reports)
    /\ \A e \in Entries :
         e.extracted =>
            IF e.chars < 100
            THEN e.outcome = "warning" /\ e.spell = "not called" /\ idx > e.file
            ELSE e.outcome = "report" /\ e.score \in 0..100

\* C8: for a PDF the secondary extractor is invoked exactly when the primary
\* one raises, and when both raise the file is reported as unprocessable and
\* no exception escapes
C8_PdfFallback ==
    \A e \in Entries :
        LET file == uploaded_files[e.file]
        IN  SplitExt(file.name) = ".pdf" =>
              /\ e.invoked = IF "fitz" \in file.raises
                             THEN <<"fitz", "pdfminer">> ELSE <<"fitz">>
              /\ {"fitz", "pdfminer"} \subseteq file.raises =>
                    e.outcome = "warning" /\ run # "crashed"

\* C7 as stated: an e-mail address earns nothing by itself and a professional
\* one earns exactly 5, so the two scenarios score 0 and 50
C7_EmailEarnsNothing ==
    \A e \in Reports :
        e.spell_errors = 0 =>
            /\ uploaded_files[e.file].text = Scenario1 => e.score = 0
            /\ uploaded_files[e.file].text = Scenario2 => e.score = 50

\* C7 (amended): Email and Professional Email are two of the section flags
\* that earn 10 points each, and a professional e-mail earns 5 more: the
\* text with john.doe@gmail.com (no section, no buzzword, no spelling error,
\* 50 words) scores 10, and the text with Education, Experience, Skills,
\* jd@acme.com, 500 words, no spelling error and 2 buzzwords scores 70
C7_EmailFlagsEarnPoints ==
    \A e \in Reports :
        e.spell_errors = 0 =>
            /\ uploaded_files[e.file].text = Scenario1 => e.score = 10
            /\ uploaded_files[e.file].text = Scenario2 => e.score = 70

\* both scenarios have been scored in one batch, as the scenarios describe
\* them
C7_Witness ==
    /\ \E e \in Reports :
         /\ uploaded_files[e.file].text = Scenario1
         /\ e.spell_errors = 0
         /\ e.word_count = 50
         /\ e.buzzwords_found = << >>
         /\ {k \in SectionKeys : e.sections[k]} = {"Email"}
    /\ \E e \in Reports :
         /\ uploaded_files[e.file].text = Scenario2
         /\ e.spell_errors = 0
         /\ e.word_count = 500
         /\ e.buzzwords_found = <<"python", "sql">>
         /\ {k \in SectionKeys : e.sections[k]}
              = {"Email", "Professional Email", "Education", "Experience", "Skills"}

\* C10: for every analysed file the page count is the word count divided by
\* 500 and rounded up (at least 1), so it is above 2 exactly when the word
\* count is above 1000, the ideal-length bonus and the page penalty are
\* never both applied, and the length warning is shown exactly when the page
\* count is above 2
C10_PagesFollowWords ==
    \A e \in Reports :
        /\ e.page_count >= 1
        /\ (e.page_count - 1) * 500 < Max(1, e.word_count)
        /\ Max(1, e.word_count) <= e.page_count * 500
        /\ e.page_count > 2 <=> e.word_count > 1000
        /\ ~((300 <= e.word_count /\ e.word_count <= 1000) /\ e.page_count > 2)
        /\ e.length_warning <=> e.page_count > 2

\* a file of 1001 words: 3 pages, the warning, and no length bonus
C10_Witness ==
    \E e \in Reports :
        /\ e.word_count = 1001
        /\ e.page_count = 3
        /\ e.length_warning

\* C6 as stated: the "<N> years" phrasing is preferred over the 4-digit years
C6_PhraseFirst ==
    call.fn = "count_years_experience" =>
        LET years == FindYears(call.text, 1)
            match == FindYearsPhrases(call.text, 1)
        IN  /\ call.ret >= 0
            /\ call.ret = IF Len(match) > 0 THEN SeqMax(match)
                          ELSE IF Len(years) >= 2
                               THEN SeqMax(years) - SeqMin(years)
                               ELSE 0

\* C6 (amended): count_years_experience prefers the year range: with two or
\* more 4-digit year matches (equal ones included) the result is max - min
\* over them whatever "<N> years" phrases the text has; with fewer than two,
\* the result is the largest N of the "<N> years" matches when there is one,
\* and 0 otherwise.  The result is never negative.
C6_RangeFirst ==
    call.fn = "count_years_experience" =>
        LET years == FindYears(call.text, 1)
            match == FindYearsPhrases(call.text, 1)
        IN  /\ call.ret >= 0
            /\ Len(years) >= 2 => call.ret = SeqMax(years) - SeqMin(years)
            /\ Len(years) < 2 /\ Len(match) > 0 => call.ret = SeqMax(match)
            /\ Len(years) < 2 /\ Len(match) = 0 => call.ret = 0

C6_Witness ==
    /\ call.fn = "count_years_experience"
    /\ Len(FindYears(call.text, 1)) >= 2
    /\ Len(FindYearsPhrases(call.text, 1)) > 0
    /\ call.ret # SeqMax(FindYearsPhrases(call.text, 1))
    /\ call.ret = 10


====
